---- MODULE Spec2Model ----
(***************************************************************************)
(* Model of the daily quiz / concept bot (main.py).                        *)
(*                                                                         *)
(*  - Spec          : send_concept run by the cron job and by /concept_now *)
(*                    over the persisted start date.                       *)
(*  - SpecIndex     : get_today_concept_index as a function of the block   *)
(*                    count, the stored ISO start date and today's date.   *)
(*  - SpecSplit     : split_concepts applied to short texts.               *)
(*  - SpecNormalize : the cleaning steps of load_quiz_data.                *)
(*  - SpecQuiz      : one run of send_quiz.                                *)
(***************************************************************************)
EXTENDS Integers, Sequences, FiniteSets, TLC

VARIABLES
    ix_n,          \* get_today_concept_index: argument n
    ix_start,      \* get_today_concept_index: argument start_date_iso
    ix_today,      \* get_today_concept_index: what date.today() returns
    ix_result,     \* outcome of the call: none / ok(value) / error
    full_text,     \* split_concepts: argument full_text (sequence of characters)
    concepts,      \* split_concepts: returned list, or NotSplit before the call
    values,        \* send_quiz: the sheet values load_quiz_data fetches
    df,            \* send_quiz: the cleaned table
    sample,        \* send_quiz: sampled rows the loop has not visited yet
    row,           \* send_quiz: the row of the current loop iteration
    poll,          \* send_quiz: the poll being sent, or NoPoll
    sent,          \* send_quiz: number of polls sent by this run
    quiz_pc,       \* send_quiz: position of the run
    state_file,    \* content of STATE_FILE, or NoFile while it does not exist
    clock,         \* the calendar date date.today() returns
    run            \* send_concept: per trigger, the position and locals of its run

ixVars == <<ix_n, ix_start, ix_today, ix_result>>
splitVars == <<full_text, concepts>>
quizVars == <<values, df, sample, row, poll, sent, quiz_pc>>
conceptVars == <<state_file, clock, run>>
vars == <<ixVars, splitVars, quizVars, conceptVars>>

(***************************************************************************)
(* Bounds of the model                                                     *)
(***************************************************************************)
MaxNegN == 3        \* block counts down to -MaxNegN are passed to the index function
MaxN == 9           \* largest block count passed to the index function
MaxDays == 30       \* largest today - start_date explored
MaxTextLen == 7     \* longest document text passed to split_concepts
MaxRawRows == 3     \* most data rows of a sheet given to the cleaning steps
MaxSheetRows == 9   \* most data rows of a sheet given to send_quiz
MaxClockDays == 15  \* days the clock advances after the bot is deployed

(***************************************************************************)
(* datetime.date: proleptic Gregorian calendar                             *)
(***************************************************************************)
IsLeap(y) == (y % 4 = 0) /\ ((y % 100 # 0) \/ (y % 400 = 0))

DaysInMonth(y, m) ==
    IF m = 2 THEN (IF IsLeap(y) THEN 29 ELSE 28)
    ELSE IF m \in {4, 6, 9, 11} THEN 30 ELSE 31

RECURSIVE DaysBeforeMonth(_, _)
DaysBeforeMonth(y, m) ==
    IF m = 1 THEN 0 ELSE DaysBeforeMonth(y, m - 1) + DaysInMonth(y, m - 1)

DaysBeforeYear(y) ==
    (y - 1) * 365 + ((y - 1) \div 4) - ((y - 1) \div 100) + ((y - 1) \div 400)

\* date.toordinal()
toordinal(d) == DaysBeforeYear(d.year) + DaysBeforeMonth(d.year, d.month) + d.day

\* date + timedelta(days=1)
NextDay(d) ==
    IF d.day < DaysInMonth(d.year, d.month)
        THEN [year |-> d.year, month |-> d.month, day |-> d.day + 1]
    ELSE IF d.month < 12
        THEN [year |-> d.year, month |-> d.month + 1, day |-> 1]
    ELSE [year |-> d.year + 1, month |-> 1, day |-> 1]

RECURSIVE AddDays(_, _)
AddDays(d, k) == IF k = 0 THEN d ELSE AddDays(NextDay(d), k - 1)

\* date.isoformat(): the ten characters YYYY-MM-DD, as a sequence of
\* decimal digits and "-" separators
isoformat(d) ==
    << (d.year \div 1000) % 10, (d.year \div 100) % 10,
       (d.year \div 10) % 10, d.year % 10, "-",
       (d.month \div 10) % 10, d.month % 10, "-",
       (d.day \div 10) % 10, d.day % 10 >>

\* date.fromisoformat()
fromisoformat(s) ==
    [year  |-> s[1] * 1000 + s[2] * 100 + s[3] * 10 + s[4],
     month |-> s[6] * 10 + s[7],
     day   |-> s[9] * 10 + s[10]]

(***************************************************************************)
(* Python integer arithmetic                                               *)
(***************************************************************************)
\* a % b with Python's floored semantics: the result has the sign of b;
\* b = 0 raises ZeroDivisionError (handled by the caller of PyMod)
PyMod(a, b) ==
    IF b > 0 THEN a % b
    ELSE -((-a) % (-b))

Ok(v) == [kind |-> "ok", value |-> v]
Raise(e) == [kind |-> e, value |-> 0]
NoResult == [kind |-> "none", value |-> 0]

(***************************************************************************)
(* get_today_concept_index                                                 *)
(***************************************************************************)
\* Variant: the final "% n" is missing
get_today_concept_index_NoWrap(n, start_date_iso, today) ==
    LET sd == fromisoformat(start_date_iso)
        days == toordinal(today) - toordinal(sd)
        week == days \div 7
        day_in_week == days % 7
        base == (week \div 2) * 7
    IN  IF n = 0 THEN Raise("ZeroDivisionError")
        ELSE Ok(base + day_in_week)

\* Variant: the base advances every week instead of every second week
get_today_concept_index_Weekly(n, start_date_iso, today) ==
    LET sd == fromisoformat(start_date_iso)
        days == toordinal(today) - toordinal(sd)
        week == days \div 7
        day_in_week == days % 7
        base == week * 7
    IN  IF n = 0 THEN Raise("ZeroDivisionError")
        ELSE Ok(PyMod(base + day_in_week, n))

\* Variant: the base advances by one block instead of seven
get_today_concept_index_StepOne(n, start_date_iso, today) ==
    LET sd == fromisoformat(start_date_iso)
        days == toordinal(today) - toordinal(sd)
        week == days \div 7
        day_in_week == days % 7
        base == week \div 2
    IN  IF n = 0 THEN Raise("ZeroDivisionError")
        ELSE Ok(PyMod(base + day_in_week, n))

get_today_concept_index(n, start_date_iso, today) ==
    LET sd == fromisoformat(start_date_iso)
        days == toordinal(today) - toordinal(sd)
        week == days \div 7
        day_in_week == days % 7
        base == (week \div 2) * 7
    IN  IF n = 0 THEN Raise("ZeroDivisionError")
        ELSE Ok(PyMod(base + day_in_week, n))

\* today - start_date, as the function computes it
DaysSince(start_date_iso, today) ==
    toordinal(today) - toordinal(fromisoformat(start_date_iso))

(***************************************************************************)
(* Python str / re helpers.  A string is a sequence of one-character       *)
(* strings.                                                                *)
(***************************************************************************)
\* str.isspace() for one character, as used by str.strip() and by \s
IsSpace(c) == c \in {" ", "\t", "\n", "\r"}

RECURSIVE lstrip(_)
lstrip(t) == IF t # <<>> /\ IsSpace(Head(t)) THEN lstrip(Tail(t)) ELSE t

RECURSIVE rstrip(_)
rstrip(t) ==
    IF t # <<>> /\ IsSpace(t[Len(t)]) THEN rstrip(SubSeq(t, 1, Len(t) - 1)) ELSE t

\* str.strip()
strip(t) == rstrip(lstrip(t))

\* Number of consecutive whitespace characters from position p on
RECURSIVE SpaceRun(_, _)
SpaceRun(t, p) ==
    IF p <= Len(t) /\ IsSpace(t[p]) THEN 1 + SpaceRun(t, p + 1) ELSE 0

\* Number of consecutive hyphens from position p on
RECURSIVE HyphenRun(_, _)
HyphenRun(t, p) ==
    IF p <= Len(t) /\ t[p] = "-" THEN 1 + HyphenRun(t, p + 1) ELSE 0

\* "^" under re.MULTILINE: start of the string or just after a newline
AtLineStart(t, p) == p = 1 \/ t[p - 1] = "\n"

\* "$" under re.MULTILINE: end of the string or just before a newline
AtLineEnd(t, p) == p = Len(t) + 1 \/ t[p] = "\n"

(***************************************************************************)
(* SEP_PATTERN = ^\s*-{3,}\s*$  (re.MULTILINE)                             *)
(***************************************************************************)
\* All ways the pattern can match starting at position p: <<a, h, b>> is
\* the number of characters taken by \s*, -{3,} and \s*.
SepCandidates(t, p, minHyphens) ==
    IF ~AtLineStart(t, p) THEN {}
    ELSE { c \in UNION { UNION { { <<a, h, b>> :
                   b \in 0..SpaceRun(t, p + a + h) } :
                   h \in minHyphens..HyphenRun(t, p + a) } :
                   a \in 0..SpaceRun(t, p) } :
             AtLineEnd(t, p + c[1] + c[2] + c[3]) }

\* The candidate a backtracking matcher finds first: every quantifier is
\* greedy, so the longest \s*, then the longest -{3,}, then the longest \s*.
Preferred(cs) ==
    CHOOSE c \in cs : \A d \in cs :
        \/ c[1] > d[1]
        \/ c[1] = d[1] /\ c[2] > d[2]
        \/ c[1] = d[1] /\ c[2] = d[2] /\ c[3] >= d[3]

\* Variant: the separator needs only two hyphens
SEP_PATTERN_match_Two(t, p) ==
    LET cs == SepCandidates(t, p, 2)
    IN  IF cs = {} THEN 0
        ELSE LET c == Preferred(cs) IN p + c[1] + c[2] + c[3]

\* SEP_PATTERN.match at position p: the position just after the match, or 0
\* when the pattern does not match there
SEP_PATTERN_match(t, p) ==
    LET cs == SepCandidates(t, p, 3)
    IN  IF cs = {} THEN 0
        ELSE LET c == Preferred(cs) IN p + c[1] + c[2] + c[3]

\* SEP_PATTERN.search from position pos: <<start, end>> of the leftmost
\* match, or <<0, 0>>
RECURSIVE SEP_PATTERN_search(_, _)
SEP_PATTERN_search(t, pos) ==
    IF pos > Len(t) THEN <<0, 0>>
    ELSE LET e == SEP_PATTERN_match(t, pos)
         IN  IF e # 0 THEN <<pos, e>> ELSE SEP_PATTERN_search(t, pos + 1)

\* re.split(SEP_PATTERN, t): the pieces between successive matches
RECURSIVE re_split(_, _)
re_split(t, pos) ==
    LET m == SEP_PATTERN_search(t, pos)
    IN  IF m[1] = 0 THEN << SubSeq(t, pos, Len(t)) >>
        ELSE << SubSeq(t, pos, m[1] - 1) >> \o re_split(t, m[2])

RECURSIVE StripNonEmpty(_)
StripNonEmpty(parts) ==
    IF parts = <<>> THEN <<>>
    ELSE (IF strip(Head(parts)) # <<>> THEN << strip(Head(parts)) >> ELSE <<>>)
         \o StripNonEmpty(Tail(parts))

split_concepts(text) == StripNonEmpty(re_split(text, 1))

(***************************************************************************)
(* load_quiz_data: the cleaning steps applied to the sheet values.  A cell *)
(* is a string or None (a cell the sheet row does not have).               *)
(***************************************************************************)
None == << "None" >>

Header == << <<"W","o","r","d">>, <<"M","e","a","n","i","n","g">> >>

\* pd.DataFrame(values[1:], columns=values[0]): one record per sheet row
RECURSIVE DataFrame(_)
DataFrame(rows) ==
    IF rows = <<>> THEN <<>>
    ELSE << [Word |-> Head(rows)[1], Meaning |-> Head(rows)[2]] >>
         \o DataFrame(Tail(rows))

\* df[mask]: the rows satisfying Keep, in their original order
Filter(frame, Keep(_)) == SelectSeq(frame, Keep)

\* df.dropna(subset=["Word", "Meaning"])
dropna(frame) == Filter(frame, LAMBDA r : r.Word # None /\ r.Meaning # None)

\* df["Word"].str.strip() and df["Meaning"].str.strip()
str_strip(frame) ==
    [i \in 1..Len(frame) |-> [Word |-> strip(frame[i].Word),
                           Meaning |-> strip(frame[i].Meaning)]]

\* The rows of df at the positions in keep, from position i on
RECURSIVE PickRows(_, _, _)
PickRows(frame, keep, i) ==
    IF i > Len(frame) THEN <<>>
    ELSE (IF i \in keep THEN << frame[i] >> ELSE <<>>) \o PickRows(frame, keep, i + 1)

\* Variant: keep="last"
RECURSIVE drop_duplicates_Last(_)
drop_duplicates_Last(frame) ==
    IF frame = <<>> THEN <<>>
    ELSE LET rest == Tail(frame)
         IN  (IF \E j \in 1..Len(rest) : rest[j].Meaning = Head(frame).Meaning
                 THEN <<>> ELSE << Head(frame) >>)
             \o drop_duplicates_Last(rest)

\* df.drop_duplicates(subset=["Meaning"]): a row is dropped when an earlier
\* row has the same Meaning
drop_duplicates(frame) ==
    LET keep == { i \in 1..Len(frame) :
                    \A j \in 1..(i - 1) : frame[j].Meaning # frame[i].Meaning }
    IN  PickRows(frame, keep, 1)

load_quiz_data(sheet) ==
    IF sheet = <<>> \/ Len(sheet) < 2 THEN Raise("Exception")
    ELSE LET df0 == DataFrame(Tail(sheet))
             df1 == dropna(df0)
             df2 == str_strip(df1)
             df3 == Filter(df2, LAMBDA r : r.Word # <<>>)
             df4 == Filter(df3, LAMBDA r : r.Meaning # <<>>)
         IN  Ok(drop_duplicates(df4))

(***************************************************************************)
(* send_quiz                                                               *)
(***************************************************************************)
QUIZ_COUNT == 5

Min(a, b) == IF a < b THEN a ELSE b

\* Sequences of k pairwise different elements of S: what random.sample and
\* DataFrame.sample can return
InjSeqs(S, k) ==
    { q \in [1..k -> S] : \A i, j \in 1..k : i # j => q[i] # q[j] }

\* Variant: the sample size is not capped by QUIZ_COUNT
SampleSize_All(frame) == Len(frame)

\* min(QUIZ_COUNT, len(df))
SampleSize(frame) == Min(QUIZ_COUNT, Len(frame))

\* Variant: the correct meaning is not excluded from the pool
wrong_pool_All(frame, correct) ==
    { frame[i].Meaning : i \in 1..Len(frame) }

\* list(set(df[df["Meaning"] != correct]["Meaning"].tolist()))
wrong_pool(frame, correct) ==
    { frame[i].Meaning : i \in { k \in 1..Len(frame) : frame[k].Meaning # correct } }

\* The orders random.shuffle can leave a 4-element list in
Perms4 == { f \in [1..4 -> 1..4] : \A i, j \in 1..4 : i # j => f[i] # f[j] }

shuffle(options, perm) == [i \in 1..4 |-> options[perm[i]]]

\* Variant: the position is taken before the shuffle
index_BeforeShuffle(options, x) == 3

\* list.index(x): zero-based position of the first element equal to x
index(options, x) ==
    (CHOOSE i \in 1..Len(options) :
        /\ options[i] = x
        /\ \A j \in 1..(i - 1) : options[j] # x) - 1

(***************************************************************************)
(* State management: load_state / save_state                               *)
(***************************************************************************)
NoFile == [start_date |-> <<>>]

\* save_state(state): the file now holds the state
save_state(state) == state

\* Variant: the existing file is ignored and rewritten on every call
load_state_Rewrite(file, now) ==
    LET state == [start_date |-> isoformat(now)]
    IN  [state |-> state, file |-> save_state(state)]

\* load_state(): the returned state and the content of the file afterwards
load_state(file, now) ==
    IF file # NoFile THEN [state |-> file, file |-> file]
    ELSE LET state == [start_date |-> isoformat(now)]
         IN  [state |-> state, file |-> save_state(state)]

(***************************************************************************)
(* Values of the variables a specification does not use                    *)
(***************************************************************************)
NotSplit == << <<"?">> >>

SplitIdle == full_text = <<>> /\ concepts = NotSplit

NoRow == [Word |-> <<>>, Meaning |-> <<>>]
NoPoll == [question |-> <<>>, options |-> <<>>, correct_option_id |-> 0]

QuizIdle ==
    /\ values = <<>> /\ df = <<>> /\ sample = <<>> /\ row = NoRow
    /\ poll = NoPoll /\ sent = 0 /\ quiz_pc = "start"

\* The triggers of send_concept: the 20:05 cron job and /concept_now
Triggers == {"cron", "manual"}

IdleRun == [pc |-> "idle", state |-> NoFile, concept |-> <<>>, error |-> "none"]

Epoch == [year |-> 2024, month |-> 2, day |-> 20]

ConceptIdle ==
    /\ state_file = NoFile /\ clock = Epoch
    /\ run = [r \in Triggers |-> IdleRun]

IndexIdle ==
    /\ ix_n = 1 /\ ix_result = NoResult
    /\ ix_start = isoformat([year |-> 2024, month |-> 1, day |-> 1])
    /\ ix_today = [year |-> 2024, month |-> 1, day |-> 1]

(***************************************************************************)
(* SpecIndex: the index function applied to bounded inputs                 *)
(***************************************************************************)
\* Start dates chosen so that the explored window crosses a month end, a
\* leap day and a year end.
StartDates ==
    { [year |-> 2024, month |-> 1, day |-> 1],
      [year |-> 2024, month |-> 2, day |-> 20],
      [year |-> 2023, month |-> 12, day |-> 25] }

InitIndex ==
    /\ ix_n \in (-MaxNegN)..MaxN
    /\ \E sd \in StartDates, k \in 0..MaxDays :
          /\ ix_start = isoformat(sd)
          /\ ix_today = AddDays(sd, k)
    /\ ix_result = NoResult
    /\ SplitIdle /\ QuizIdle /\ ConceptIdle

CallIndex ==
    /\ ix_result.kind = "none"
    /\ ix_result' = get_today_concept_index(ix_n, ix_start, ix_today)
    /\ UNCHANGED <<ix_n, ix_start, ix_today>>
    /\ UNCHANGED <<splitVars, quizVars, conceptVars>>

NextIndex == CallIndex

SpecIndex == InitIndex /\ [][NextIndex]_vars

(***************************************************************************)
(* send_quiz, one run                                                      *)
(***************************************************************************)
\* df = load_quiz_data(); an exception ends the run
QuizLoad ==
    /\ quiz_pc = "start"
    /\ LET r == load_quiz_data(values)
       IN  IF r.kind = "ok"
               THEN df' = r.value /\ quiz_pc' = "announce"
               ELSE df' = df /\ quiz_pc' = "failed"
    /\ UNCHANGED <<values, sample, row, poll, sent>>
    /\ UNCHANGED <<ixVars, splitVars, conceptVars>>

\* await bot.send_message(...) returns; sample = df.sample(min(QUIZ_COUNT, len(df)))
QuizSample ==
    /\ quiz_pc = "announce"
    /\ \E q \in InjSeqs(1..Len(df), SampleSize(df)) :
          sample' = [i \in 1..Len(q) |-> df[q[i]]]
    /\ quiz_pc' = "loop"
    /\ UNCHANGED <<values, df, row, poll, sent>>
    /\ UNCHANGED <<ixVars, splitVars, conceptVars>>

\* loop body, "continue" branch: fewer than 3 wrong meanings
QuizSkip ==
    /\ quiz_pc = "loop" /\ sample # <<>>
    /\ row' = Head(sample)
    /\ Cardinality(wrong_pool(df, Head(sample).Meaning)) < 3
    /\ sample' = Tail(sample)
    /\ UNCHANGED <<values, df, poll, sent, quiz_pc>>
    /\ UNCHANGED <<ixVars, splitVars, conceptVars>>

\* loop body up to "await bot.send_poll(...)"
QuizEmit ==
    /\ quiz_pc = "loop" /\ sample # <<>>
    /\ row' = Head(sample)
    /\ LET word == Head(sample).Word
           correct == Head(sample).Meaning
           pool == wrong_pool(df, correct)
       IN  /\ ~(Cardinality(pool) < 3)
           /\ \E wrong_choices \in InjSeqs(pool, 3), perm \in Perms4 :
                 LET options == shuffle(wrong_choices \o << correct >>, perm)
                 IN  poll' = [question |-> word,
                              options |-> options,
                              correct_option_id |-> index(options, correct)]
    /\ sample' = Tail(sample)
    /\ sent' = sent + 1
    /\ quiz_pc' = "poll"
    /\ UNCHANGED <<values, df>>
    /\ UNCHANGED <<ixVars, splitVars, conceptVars>>

\* await bot.send_poll(...) returns; the loop goes on
QuizPollSent ==
    /\ quiz_pc = "poll"
    /\ poll' = NoPoll
    /\ quiz_pc' = "loop"
    /\ UNCHANGED <<values, df, sample, row, sent>>
    /\ UNCHANGED <<ixVars, splitVars, conceptVars>>

\* the loop is exhausted and send_quiz returns
QuizFinish ==
    /\ quiz_pc = "loop" /\ sample = <<>>
    /\ quiz_pc' = "done"
    /\ UNCHANGED <<values, df, sample, row, poll, sent>>
    /\ UNCHANGED <<ixVars, splitVars, conceptVars>>

(***************************************************************************)
(* SpecNormalize: load_quiz_data applied to every small sheet              *)
(***************************************************************************)
WordCells == { None, <<" ">>, <<"w">>, <<" ", "v">> }
MeaningCells == { None, <<" ">>, <<"m">>, <<"m", " ">>, <<"k">> }

RawRows == { << w, m >> : w \in WordCells, m \in MeaningCells }

\* no values at all, or the header followed by up to MaxRawRows rows
InitNormalize ==
    /\ \/ values = <<>>
       \/ \E k \in 0..MaxRawRows : \E rows \in [1..k -> RawRows] :
             values = << Header >> \o rows
    /\ df = <<>> /\ sample = <<>> /\ row = NoRow
    /\ poll = NoPoll /\ sent = 0 /\ quiz_pc = "start"
    /\ IndexIdle /\ SplitIdle /\ ConceptIdle

NextNormalize == QuizLoad

SpecNormalize == InitNormalize /\ [][NextNormalize]_vars

(***************************************************************************)
(* SpecQuiz: send_quiz run on sheets of up to MaxSheetRows rows            *)
(***************************************************************************)
\* Rows of a vocabulary sheet: six different meanings, a repeated meaning
\* that differs only by surrounding blanks, a missing cell and a blank word
MasterRows ==
    << << <<"a","n","t">>, <<"m","1">> >>,
       << <<"b","e","e"," ">>, <<" ","m","1">> >>,
       << <<"c","a","t">>, <<"m","2">> >>,
       << <<"d","o","g">>, None >>,
       << <<"e","e","l">>, <<"m","3">> >>,
       << <<"f","o","x">>, <<"m","4">> >>,
       << <<" ">>, <<"m","5">> >>,
       << <<"g","n","u">>, <<"m","5"," ">> >>,
       << <<"h","e","n">>, <<"m","6">> >>,
       << <<"e","m","u">>, <<"m","2"," ">> >>,
       << <<"j","a","y">>, <<"m","4">> >> >>

\* no values at all, or the header followed by the first rows of MasterRows
QuizSheets ==
    { <<>> } \cup
    { << Header >> \o SubSeq(MasterRows, 1, j) :
        j \in 0..Min(MaxSheetRows, Len(MasterRows)) }

InitQuiz ==
    /\ values \in QuizSheets
    /\ df = <<>> /\ sample = <<>> /\ row = NoRow
    /\ poll = NoPoll /\ sent = 0 /\ quiz_pc = "start"
    /\ IndexIdle /\ SplitIdle /\ ConceptIdle

NextQuiz ==
    \/ QuizLoad
    \/ QuizSample
    \/ QuizSkip
    \/ QuizEmit
    \/ QuizPollSent
    \/ QuizFinish

SpecQuiz == InitQuiz /\ [][NextQuiz]_vars

(***************************************************************************)
(* Spec: send_concept run by the cron job and by /concept_now, over the    *)
(* persisted start date                                                    *)
(***************************************************************************)
\* Texts fetch_doc_text can return: no block, one, two and three blocks
Docs ==
    { <<>>,
      <<"a">>,
      <<"a", "\n", "-", "-", "-", "\n", "b">>,
      <<"a", "\n", "-", "-", "-", "\n", "b", "\n", "-", "-", "-", "-", "\n", "c">> }

Init ==
    /\ state_file = NoFile
    /\ clock = Epoch
    /\ run = [r \in Triggers |-> IdleRun]
    /\ IndexIdle /\ SplitIdle /\ QuizIdle

\* send_concept up to "await bot.send_message(...)"; an exception raised by
\* the index computation ends the run
ConceptRun(r) ==
    /\ run[r].pc = "idle"
    /\ \E full \in Docs :
          LET ld == load_state(state_file, clock)
              blocks == split_concepts(full)
              idx == get_today_concept_index(Len(blocks), ld.state.start_date, clock)
          IN  /\ state_file' = ld.file
              /\ IF idx.kind = "ok"
                    THEN run' = [run EXCEPT ![r] =
                                    [pc |-> "sending", state |-> ld.state,
                                     concept |-> blocks[idx.value + 1],
                                     error |-> "none"]]
                    ELSE run' = [run EXCEPT ![r] =
                                    [pc |-> "idle", state |-> ld.state,
                                     concept |-> <<>>, error |-> idx.kind]]
    /\ UNCHANGED clock
    /\ UNCHANGED <<ixVars, splitVars, quizVars>>

\* await bot.send_message(...) returns and send_concept ends
ConceptSent(r) ==
    /\ run[r].pc = "sending"
    /\ run' = [run EXCEPT ![r].pc = "idle"]
    /\ UNCHANGED <<state_file, clock>>
    /\ UNCHANGED <<ixVars, splitVars, quizVars>>

\* midnight passes
Tick ==
    /\ toordinal(clock) - toordinal(Epoch) < MaxClockDays
    /\ clock' = NextDay(clock)
    /\ UNCHANGED <<state_file, run>>
    /\ UNCHANGED <<ixVars, splitVars, quizVars>>

\* the process is restarted: running coroutines are lost, the file stays
Restart ==
    /\ \E r \in Triggers : run[r] # IdleRun
    /\ run' = [r \in Triggers |-> IdleRun]
    /\ UNCHANGED <<state_file, clock>>
    /\ UNCHANGED <<ixVars, splitVars, quizVars>>

Next ==
    \/ \E r \in Triggers : ConceptRun(r)
    \/ \E r \in Triggers : ConceptSent(r)
    \/ Tick
    \/ Restart

Spec == Init /\ [][Next]_vars

\* C4: the start date is written once, by the first load_state that finds no
\* file, as that day's date; afterwards the file never changes, and every
\* send_concept run, scheduled or manual, works with the value stored then.
C4_StartDateWrittenOnce ==
    [][ /\ (state_file # NoFile => state_file' = state_file)
        /\ (state_file = NoFile /\ state_file' # NoFile =>
               /\ state_file' = [start_date |-> isoformat(clock)]
               /\ \E r \in Triggers : run'[r] # run[r])
        /\ \A r \in Triggers :
               run'[r].state # NoFile => run'[r].state = state_file' ]_vars

\* both triggers are sending on a later day than the one the date was stored
C4_Witness ==
    /\ state_file = [start_date |-> isoformat(Epoch)]
    /\ clock # Epoch
    /\ \A r \in Triggers :
          run[r].pc = "sending" /\ run[r].state = state_file

\* The call has been made for the inputs of the current state
IndexCalled == ix_result.kind # "none"

ix_days == DaysSince(ix_start, ix_today)

\* C2: for every block count n > 0 and every days = today - start_date >= 0,
\* get_today_concept_index returns a value idx with 0 <= idx < n.
C2_IndexInRange ==
    (IndexCalled /\ ix_n > 0 /\ ix_days >= 0) =>
        /\ ix_result.kind = "ok"
        /\ 0 <= ix_result.value
        /\ ix_result.value < ix_n

\* a call whose un-reduced sum base + day_in_week exceeds n, so the
\* reduction modulo n has acted
C2_Witness ==
    /\ IndexCalled /\ ix_n = 5 /\ ix_days = 27
    /\ ix_result = Ok(3)

\* C3: repetition law.  When days and days+7 lie in the same two-week pair,
\* the index computed for days equals the index computed for days+7.
C3_RepetitionLaw ==
    (/\ IndexCalled /\ ix_n > 0 /\ ix_days >= 0
     /\ (ix_days \div 7) \div 2 = ((ix_days + 7) \div 7) \div 2) =>
        ix_result = get_today_concept_index(ix_n, ix_start, AddDays(ix_today, 7))

\* a first-week day of the second pair, with a block count not dividing 7
C3_Witness ==
    /\ IndexCalled /\ ix_n = 9 /\ ix_days = 16
    /\ (ix_days \div 7) \div 2 = ((ix_days + 7) \div 7) \div 2
    /\ ix_result = Ok(0)

\* C9: two-week advance.  For n > 0 and days >= 0 the index for days+14 is
\* (the index for days + 7) mod n.
C9_TwoWeekAdvance ==
    (IndexCalled /\ ix_n > 0 /\ ix_days >= 0) =>
        get_today_concept_index(ix_n, ix_start, AddDays(ix_today, 14)) =
            Ok((ix_result.value + 7) % ix_n)

\* a call where advancing by 7 wraps around the block list
C9_Witness ==
    /\ IndexCalled /\ ix_n = 9 /\ ix_days = 18
    /\ ix_result = Ok(2)
    /\ get_today_concept_index(ix_n, ix_start, AddDays(ix_today, 14)) = Ok(0)

\* C5: whenever n <= 0 the index computation fails; it never returns an
\* index.
C5_NonPositiveCountFails ==
    (IndexCalled /\ ix_n <= 0) => ix_result.kind \notin {"ok"}

(***************************************************************************)
(* SpecSplit: split_concepts applied to every short text                   *)
(***************************************************************************)
TextAlphabet == {"a", "-", " ", "\n"}

Texts == UNION { [1..k -> TextAlphabet] : k \in 0..MaxTextLen }

InitSplit ==
    /\ full_text \in Texts
    /\ concepts = NotSplit
    /\ IndexIdle /\ QuizIdle /\ ConceptIdle

CallSplit ==
    /\ concepts = NotSplit
    /\ concepts' = split_concepts(full_text)
    /\ UNCHANGED full_text
    /\ UNCHANGED <<ixVars, quizVars, conceptVars>>

NextSplit == CallSplit

SpecSplit == InitSplit /\ [][NextSplit]_vars

\* The text cut into physical lines at "\n"
RECURSIVE Lines(_)
Lines(t) ==
    LET nl == { i \in 1..Len(t) : t[i] = "\n" }
        k == IF nl = {} THEN Len(t)
             ELSE (CHOOSE i \in nl : \A j \in nl : i <= j) - 1
    IN  IF k = Len(t) THEN << t >>
        ELSE << SubSeq(t, 1, k) >> \o Lines(SubSeq(t, k + 2, Len(t)))

\* A line that, once trimmed, consists only of three or more hyphens
IsSeparatorLine(line) ==
    LET s == strip(line)
    IN  Len(s) >= 3 /\ \A i \in 1..Len(s) : s[i] = "-"

\* The blocks obtained by cutting at the separator lines: cur is the text
\* of the lines gathered since the last separator
RECURSIVE BlocksOfLines(_, _, _)
BlocksOfLines(ls, cur, started) ==
    LET flush == IF strip(cur) # <<>> THEN << strip(cur) >> ELSE <<>>
    IN  IF ls = <<>> THEN flush
        ELSE IF IsSeparatorLine(Head(ls))
            THEN flush \o BlocksOfLines(Tail(ls), <<>>, FALSE)
        ELSE BlocksOfLines(Tail(ls),
                           IF started THEN cur \o <<"\n">> \o Head(ls) ELSE Head(ls),
                           TRUE)

SplitCalled == concepts # NotSplit

\* C8: split_concepts cuts the text exactly at the lines that, once trimmed,
\* consist only of three or more hyphens; the blocks come back in source
\* order, each non-empty and trimmed, empty segments dropped; an empty or
\* whitespace-only text gives no block.
C8_SplitAtSeparatorLines ==
    SplitCalled =>
        /\ concepts = BlocksOfLines(Lines(full_text), <<>>, FALSE)
        /\ \A i \in 1..Len(concepts) :
              concepts[i] # <<>> /\ strip(concepts[i]) = concepts[i]
        /\ (strip(full_text) = <<>> => concepts = <<>>)

\* A text with one separator line between two blocks
C8_Witness ==
    /\ full_text = <<"a", "\n", "-", "-", "-", "\n", "a">>
    /\ concepts = << <<"a">>, <<"a">> >>

(***************************************************************************)
(* Properties of load_quiz_data                                            *)
(***************************************************************************)
\* The data rows of the sheet, header removed
DataRows == Tail(values)

\* A sheet row that survives the cleaning steps before deduplication
Survives(r) ==
    /\ r[1] # None /\ r[2] # None
    /\ strip(r[1]) # <<>> /\ strip(r[2]) # <<>>

Cleaned(r) == [Word |-> strip(r[1]), Meaning |-> strip(r[2])]

\* Position of the first surviving sheet row whose trimmed meaning is m
\* (0 when there is none)
FirstSurviving(m) ==
    LET hits == { i \in 1..Len(DataRows) :
                    Survives(DataRows[i]) /\ strip(DataRows[i][2]) = m }
    IN  IF hits = {} THEN 0 ELSE CHOOSE i \in hits : \A j \in hits : i <= j

TableLoaded == quiz_pc = "announce"

\* C7: the cleaned table has only non-empty, trimmed words and meanings, no
\* two entries share a meaning, each entry is the first surviving sheet row
\* with its meaning, and the entries keep their original relative order.
C7_NormalizedTable ==
    TableLoaded =>
        /\ \A i \in 1..Len(df) :
              /\ df[i].Word # <<>> /\ strip(df[i].Word) = df[i].Word
              /\ df[i].Meaning # <<>> /\ strip(df[i].Meaning) = df[i].Meaning
        /\ \A i, j \in 1..Len(df) : i # j => df[i].Meaning # df[j].Meaning
        /\ \A i \in 1..Len(df) :
              /\ FirstSurviving(df[i].Meaning) # 0
              /\ df[i] = Cleaned(DataRows[FirstSurviving(df[i].Meaning)])
        /\ \A i, j \in 1..Len(df) :
              i < j => FirstSurviving(df[i].Meaning) < FirstSurviving(df[j].Meaning)

\* a sheet with a meaning repeated up to blanks around another meaning
C7_Witness ==
    /\ TableLoaded
    /\ values = << Header,
                   << <<" ", "v">>, <<"m", " ">> >>,
                   << <<"w">>, <<"k">> >>,
                   << <<"w">>, <<"m">> >> >>
    /\ df = << [Word |-> <<"v">>, Meaning |-> <<"m">>],
               [Word |-> <<"w">>, Meaning |-> <<"k">>] >>

(***************************************************************************)
(* Properties of send_quiz                                                 *)
(***************************************************************************)
Meanings == { df[i].Meaning : i \in 1..Len(df) }

PollInFlight == quiz_pc = "poll"

\* C1: every poll send_quiz emits has exactly 4 pairwise different options,
\* a correct-option index in 0..3, the sampled row's meaning at that index,
\* and that meaning at no other position.
C1_WellFormedQuestion ==
    PollInFlight =>
        /\ Len(poll.options) = 4
        /\ \A i, j \in 1..4 : i # j => poll.options[i] # poll.options[j]
        /\ poll.correct_option_id \in 0..3
        /\ poll.options[poll.correct_option_id + 1] = row.Meaning
        /\ \A i \in 1..4 :
              i # poll.correct_option_id + 1 => poll.options[i] # row.Meaning
        /\ poll.question = row.Word
        /\ \E i \in 1..Len(df) : df[i] = row

\* a poll whose correct meaning the shuffle moved to the front
C1_Witness ==
    /\ PollInFlight
    /\ Len(df) = 6
    /\ poll.correct_option_id = 0
    /\ poll.options[1] = row.Meaning

\* C6: when the cleaned table has fewer than 4 distinct meanings, the run
\* emits no poll at all.
C6_NoQuestionBelowFour ==
    (quiz_pc \notin {"start", "failed"} /\ Cardinality(Meanings) < 4) =>
        /\ sent = 0
        /\ poll = NoPoll

\* a finished run over a table of three meanings, all rows visited
C6_Witness ==
    /\ quiz_pc = "done"
    /\ Cardinality(Meanings) = 3
    /\ row # NoRow
    /\ sent = 0

\* C10: a run never emits more than min(QUIZ_COUNT, |T|) polls, and a
\* finished run has emitted either none or exactly min(QUIZ_COUNT, |T|).
C10_AllOrNothing ==
    quiz_pc \notin {"start", "failed"} =>
        /\ sent <= Min(QUIZ_COUNT, Len(df))
        /\ (quiz_pc = "done" => sent \in {0, Min(QUIZ_COUNT, Len(df))})

\* a finished run over six entries that emitted QUIZ_COUNT polls
C10_Witness ==
    /\ quiz_pc = "done"
    /\ Len(df) = 6
    /\ sent = QUIZ_COUNT

====
